---- MODULE Spec2Model ----
(***************************************************************************)
(* Job queue of Prince5723/distributed-job-queue: the JobStore, the        *)
(* QueueManager, the Scheduler and the WorkerPool of the master process,   *)
(* and the JobStore/QueueManager copies held by the clustered API server   *)
(* processes.                                                              *)
(*                                                                         *)
(* One step of the model is one macrotask of the Node.js event loop: a     *)
(* timer callback, a message or event handler, an HTTP handler, together   *)
(* with every promise continuation (microtask) it makes runnable.          *)
(***************************************************************************)
EXTENDS Integers, Sequences, FiniteSets, TLC

\* ---------------------------------------------------------------- bounds
\* job ids that uuidv4() hands out during one run
MaxJobs == 3
\* clock horizon, in clock steps
MaxTicks == 3
\* worker threads ever created (the initial pool and its replacements)
MaxThreads == 2

\* ------------------------------------------------- configuration, constants
\* os.cpus().length: API server processes forked by the master
NUM_CPUS == 2
\* QUEUE_MAX_SIZE
maxQueueSize == 2
\* WORKER_POOL_SIZE
poolSize == 1
\* MAX_JOB_ATTEMPTS
MAX_JOB_ATTEMPTS == 3
\* RETRY_BACKOFF_BASE_MS
RETRY_BACKOFF_BASE_MS == 1000
\* Scheduler.pollInterval
pollInterval == 1000

Master == 0
ApiProcs == 1..NUM_CPUS
Procs == {Master} \cup ApiProcs
JobIds == 1..MaxJobs
WorkerIds == 1..MaxThreads
\* The clock advances in steps of two poll intervals: every retry delay the
\* queue manager computes is a multiple of it.
ClockStep == 2 * pollInterval
MaxTime == MaxTicks * ClockStep

Statuses == {"PENDING", "RUNNING", "COMPLETED", "FAILED", "RETRYING", "DEAD"}
Null == -1
NoError == "null"
NoJob == [status |-> "NONE"]
NoResponse == [method |-> "NONE"]
NoCall == [op |-> "NONE"]
NoObserver == "none"
\* options.maxAttempts as passed to createJob; 0 stands for "not given"
MaxAttemptsOptions == {0, 1}
\* the shutdown handlers, in registration order
NumHandlers == 3
Handlers == 1..NumHandlers
Payloads == {"valid", "invalid"}

QueueFullMessage == "Queue is at maximum capacity"
AlreadyRunningMessage == "Job is already running"
ShuttingDownMessage == "Worker pool is shutting down"
CrashMessage == "Worker crashed"
ExitMessage == "Worker exited with code"
SendFailedMessage == "Email send failed"
InvalidAddressMessage == "Invalid email address"
ObserverMessage == "Observer failed"
UncaughtMessage == "Uncaught error"
\* the events a failing observer may be registered for
ObservedEvents == {"job:started", "job:completed"}

VARIABLES
    now,               \* Date.now()
    jobs,              \* JobStore.jobs of each process
    jobsByStatus,      \* JobStore.jobsByStatus of each process (Sets keep insertion order)
    events,            \* lifecycle events emitted so far, per job id
    isRunning,         \* Scheduler.isRunning
    isPaused,          \* Scheduler.isPaused
    schedulerTimer,    \* Scheduler.schedulerTimer is pending
    activeExecutions,  \* Scheduler.activeExecutions
    dispatching,       \* per job id, the dispatchJob calls that have not returned yet
    workers,           \* WorkerPool.workers
    availableWorkers,  \* WorkerPool.availableWorkers
    busyWorkers,       \* WorkerPool.busyWorkers (0: no entry)
    currentJob,        \* workerInfo.currentJob (0: null)
    jobCallbacks,      \* WorkerPool.jobCallbacks: ids with a pending {resolve, reject}
    waiting,           \* executeJob calls inside getAvailableWorker's interval, oldest first
    isShuttingDown,    \* WorkerPool.isShuttingDown
    thread,            \* state of each worker thread
    threadJob,         \* the job a worker thread is executing (0: none)
    chan,              \* messages posted by a worker, not yet handled by the pool
    response,          \* the last HTTP response an API server process has sent
    call,              \* the last call made on the master's QueueManager from outside the scheduler
    observer,          \* the event for which a throwing listener is registered on jobEvents
    poolShutdown,      \* where a WorkerPool.shutdown() call stands
    gracefulIsShuttingDown, \* GracefulShutdown.isShuttingDown
    handlerStatus,     \* per registered shutdown handler: registered, running, resolved, rejected
    handlerRuns,       \* per registered shutdown handler: how often it has been called
    signals,           \* SIGINT/SIGTERM signals the process has received
    forceExitTimer,    \* the forceExitTimer of GracefulShutdown.shutdown is pending
    exitCode           \* the code process.exit was called with (Null: the process runs)

vars == <<now, jobs, jobsByStatus, events, isRunning, isPaused, schedulerTimer,
          activeExecutions, dispatching, workers, availableWorkers, busyWorkers, currentJob,
          jobCallbacks, waiting, isShuttingDown, thread, threadJob, chan, response, call, observer,
          poolShutdown, gracefulIsShuttingDown, handlerStatus, handlerRuns, signals,
          forceExitTimer, exitCode>>

storeVars == <<jobs, jobsByStatus, events>>
schedVars == <<isRunning, isPaused, schedulerTimer, activeExecutions, dispatching>>
clientVars == <<call, observer>>
coordVars == <<gracefulIsShuttingDown, handlerStatus, handlerRuns, signals, forceExitTimer, exitCode>>
shutdownVars == <<poolShutdown, coordVars>>
poolVars == <<workers, availableWorkers, busyWorkers, currentJob, jobCallbacks,
              waiting, isShuttingDown, thread, threadJob, chan>>

\* ---------------------------------------------------------------- helpers
Range(s) == {s[i] : i \in DOMAIN s}
\* Set.prototype.add / delete on an insertion-ordered Set
SetAdd(s, x) == IF x \in Range(s) THEN s ELSE Append(s, x)
SetDelete(s, x) == SelectSeq(s, LAMBDA y : y # x)

\* ------------------------------------------------------------- JobStore
\* The operators below act on a record S holding the fields of the objects
\* of one process; each returns the record after the call.

StoreSize(S) == Cardinality({id \in JobIds : S.jobs[id] # NoJob})

NewJob(payload, optMaxAttempts, t) ==
    [status |-> "PENDING", payload |-> payload, attempts |-> 0,
     maxAttempts |-> IF optMaxAttempts # 0 THEN optMaxAttempts ELSE MAX_JOB_ATTEMPTS,
     createdAt |-> t, startedAt |-> Null, finishedAt |-> Null,
     error |-> NoError, retryAt |-> Null]

StoreCreateJob(S, id, payload, optMaxAttempts, t) ==
    [S EXCEPT !.jobs[id] = NewJob(payload, optMaxAttempts, t),
              !.jobsByStatus["PENDING"] = SetAdd(@, id)]

\* updateJobStatus that forgets to take the id out of the old status set
updateJobStatusKeepsOld(S, jobId, newStatus, updates) ==
    [S EXCEPT !.jobs[jobId] = updates @@ [S.jobs[jobId] EXCEPT !.status = newStatus],
              !.jobsByStatus[newStatus] = SetAdd(@, jobId)]

updateJobStatus(S, jobId, newStatus, updates) ==
    LET job == S.jobs[jobId]
        removed == [S.jobsByStatus EXCEPT ![job.status] = SetDelete(@, jobId)]
        added == [removed EXCEPT ![newStatus] = SetAdd(@, jobId)]
    IN  [S EXCEPT !.jobs[jobId] = updates @@ [job EXCEPT !.status = newStatus],
                  !.jobsByStatus = added]

markJobStarted(S, jobId, t) ==
    updateJobStatus(S, jobId, "RUNNING",
                    [startedAt |-> t, attempts |-> S.jobs[jobId].attempts + 1])

markJobCompleted(S, jobId, t) ==
    updateJobStatus(S, jobId, "COMPLETED", [finishedAt |-> t])

\* markJobFailed without the test of the attempts
markJobFailedNeverDead(S, jobId, error, t) ==
    updateJobStatus(S, jobId, "FAILED", [error |-> error])

markJobFailed(S, jobId, error, t) ==
    IF S.jobs[jobId].attempts >= S.jobs[jobId].maxAttempts
    THEN updateJobStatus(S, jobId, "DEAD", [finishedAt |-> t, error |-> error])
    ELSE updateJobStatus(S, jobId, "FAILED", [error |-> error])

\* markJobRetrying that drops the retry timestamp
markJobRetryingNoRetryAt(S, jobId, retryAt) ==
    updateJobStatus(S, jobId, "RETRYING", [retryAt |-> Null])

markJobRetrying(S, jobId, retryAt) ==
    updateJobStatus(S, jobId, "RETRYING", [retryAt |-> retryAt])

getJobsByStatus(S, status) ==
    SelectSeq(S.jobsByStatus[status], LAMBDA id : S.jobs[id] # NoJob)

\* getJobsReadyForExecution with the retry test turned around
getJobsReadyRetryAtFlipped(S, t) ==
    getJobsByStatus(S, "PENDING")
    \o SelectSeq(getJobsByStatus(S, "RETRYING"),
                 LAMBDA id : S.jobs[id].retryAt # Null /\ S.jobs[id].retryAt >= t)

\* getJobsReadyForExecution without the retry test
getJobsReadyAllRetrying(S, t) ==
    getJobsByStatus(S, "PENDING") \o getJobsByStatus(S, "RETRYING")

\* getJobsReadyForExecution that reads the COMPLETED set where it should read PENDING
getJobsReadyFromCompleted(S, t) ==
    getJobsByStatus(S, "PENDING") \o getJobsByStatus(S, "COMPLETED")
    \o SelectSeq(getJobsByStatus(S, "RETRYING"),
                 LAMBDA id : S.jobs[id].retryAt # Null /\ S.jobs[id].retryAt <= t)

getJobsReadyForExecution(S, t) ==
    getJobsByStatus(S, "PENDING")
    \o SelectSeq(getJobsByStatus(S, "RETRYING"),
                 LAMBDA id : /\ S.jobs[id].retryAt # Null
                             /\ S.jobs[id].retryAt # 0
                             /\ S.jobs[id].retryAt <= t)

\* a running test that never finds the job running
isJobRunningNever(S, jobId) == FALSE

isJobRunning(S, jobId) ==
    S.jobs[jobId] # NoJob /\ S.jobs[jobId].status = "RUNNING"

\* --------------------------------------------------------- JobEventEmitter
Event(name, retryDelay) == [name |-> name, retryDelay |-> retryDelay]

emit(S, jobId, name, retryDelay) ==
    [S EXCEPT !.events[jobId] = Append(@, Event(name, retryDelay))]

\* EventEmitter.emit calls the listeners in turn on the caller's stack and
\* catches nothing: emit(name) throws when a listener of name throws
emitThrows(name) == observer = name

\* ----------------------------------------------------------- QueueManager
calculateRetryDelay(attempts) == RETRY_BACKOFF_BASE_MS * (2 ^ attempts)

\* the error startJob throws on S; NoError when it returns the job
startJobThrows(S, jobId) ==
    IF isJobRunning(S, jobId) THEN AlreadyRunningMessage ELSE NoError

startJob(S, jobId, t) ==
    emit(markJobStarted(S, jobId, t), jobId, "job:started", 0)

completeJob(S, jobId, t) ==
    emit(markJobCompleted(S, jobId, t), jobId, "job:completed", 0)

\* failJob that retries while attempts <= maxAttempts
failJobOffByOne(S, jobId, errorMessage, t) ==
    LET job == S.jobs[jobId] IN
    IF job.attempts <= job.maxAttempts
    THEN LET retryDelay == calculateRetryDelay(job.attempts)
             failed == markJobFailed(S, jobId, errorMessage, t)
             updated == markJobRetrying(failed, jobId, t + retryDelay)
         IN  emit(emit(updated, jobId, "job:failed", 0), jobId, "job:retrying", retryDelay)
    ELSE LET dead == markJobFailed(S, jobId, errorMessage, t)
         IN  emit(emit(dead, jobId, "job:failed", 0), jobId, "job:dead", 0)

\* failJob that forgets the markJobRetrying call
failJobNoRetrying(S, jobId, errorMessage, t) ==
    LET job == S.jobs[jobId]
        failed == markJobFailed(S, jobId, errorMessage, t)
    IN  IF job.attempts < job.maxAttempts
        THEN emit(emit(failed, jobId, "job:failed", 0), jobId, "job:retrying",
                  calculateRetryDelay(job.attempts))
        ELSE emit(emit(failed, jobId, "job:failed", 0), jobId, "job:dead", 0)

\* failJob that emits job:retrying before job:failed
failJobEventsSwapped(S, jobId, errorMessage, t) ==
    LET job == S.jobs[jobId] IN
    IF job.attempts < job.maxAttempts
    THEN LET retryDelay == calculateRetryDelay(job.attempts)
             failed == markJobFailed(S, jobId, errorMessage, t)
             updated == markJobRetrying(failed, jobId, t + retryDelay)
         IN  emit(emit(updated, jobId, "job:retrying", retryDelay), jobId, "job:failed", 0)
    ELSE LET dead == markJobFailed(S, jobId, errorMessage, t)
         IN  emit(emit(dead, jobId, "job:failed", 0), jobId, "job:dead", 0)

failJob(S, jobId, errorMessage, t) ==
    LET job == S.jobs[jobId] IN
    IF job.attempts < job.maxAttempts
    THEN LET retryDelay == calculateRetryDelay(job.attempts)
             retryAt == t + retryDelay
             failed == markJobFailed(S, jobId, errorMessage, t)
             updated == markJobRetrying(failed, jobId, retryAt)
         IN  emit(emit(updated, jobId, "job:failed", 0), jobId, "job:retrying", retryDelay)
    ELSE LET dead == markJobFailed(S, jobId, errorMessage, t)
         IN  emit(emit(dead, jobId, "job:failed", 0), jobId, "job:dead", 0)

\* a capacity check that lets one job too many in
QueueFullOffByOne(S) == StoreSize(S) > maxQueueSize

QueueFull(S) == StoreSize(S) >= maxQueueSize

\* the error createJob throws on S; NoError when it returns a job
createJobThrows(S) == IF QueueFull(S) THEN QueueFullMessage ELSE NoError

\* QueueManager.createJob when JobStore.createJob does not throw
createJob(S, id, payload, optMaxAttempts, t) ==
    emit(StoreCreateJob(S, id, payload, optMaxAttempts, t), id, "job:created", 0)

\* ------------------------------------------------------------- WorkerPool
RemoveFirst(s, x) ==
    IF x \notin Range(s) THEN s
    ELSE LET i == CHOOSE k \in DOMAIN s : s[k] = x /\ \A m \in 1..(k - 1) : s[m] # x
         IN  SubSeq(s, 1, i - 1) \o SubSeq(s, i + 1, Len(s))

\* releaseWorker that leaves the worker in busyWorkers
releaseWorkerStillBusy(S, w) ==
    LET S1 == [S EXCEPT !.currentJob[w] = 0]
    IN  IF w \in Range(S1.workers) /\ ~isShuttingDown
        THEN [S1 EXCEPT !.availableWorkers = Append(@, w)]
        ELSE S1

releaseWorker(S, w) ==
    LET S1 == [S EXCEPT !.currentJob[w] = 0, !.busyWorkers[w] = 0]
    IN  IF w \in Range(S1.workers) /\ ~isShuttingDown
        THEN [S1 EXCEPT !.availableWorkers = Append(@, w)]
        ELSE S1

\* removeWorker that leaves the worker in the workers array
removeWorkerStillCounted(S, w) ==
    [S EXCEPT !.availableWorkers = RemoveFirst(@, w),
              !.busyWorkers[w] = 0]

removeWorker(S, w) ==
    [S EXCEPT !.workers = RemoveFirst(@, w),
              !.availableWorkers = RemoveFirst(@, w),
              !.busyWorkers[w] = 0]

\* the Promise executor of executeJob, run once a worker has been obtained;
\* postMessage({type: 'execute'}) is taken up by the worker thread at once
assignWorker(S, w, jobId) ==
    [S EXCEPT !.jobCallbacks = @ \cup {jobId},
              !.currentJob[w] = jobId,
              !.busyWorkers[w] = jobId,
              !.thread[w] = IF @ = "idle" THEN "executing" ELSE @,
              !.threadJob[w] = IF S.thread[w] = "idle" THEN jobId ELSE @]

\* -------------------------------------------------------------- Scheduler
\* a dispatchJob without the finally block
onRejectedKeepsInFlight(S, jobId, errorMessage, t) ==
    [failJob(S, jobId, errorMessage, t) EXCEPT !.dispatching[jobId] = @ - 1]

\* dispatchJob's catch and finally
onRejected(S, jobId, errorMessage, t) ==
    [failJob(S, jobId, errorMessage, t) EXCEPT !.activeExecutions = @ \ {jobId},
                                               !.dispatching[jobId] = @ - 1]

\* dispatchJob after `await workerPool.executeJob(job)` has resolved; an
\* error thrown out of completeJob lands in the same catch
onResolved(S, jobId, t) ==
    IF emitThrows("job:completed")
    THEN onRejected(completeJob(S, jobId, t), jobId, ObserverMessage, t)
    ELSE [completeJob(S, jobId, t) EXCEPT !.activeExecutions = @ \ {jobId},
                                          !.dispatching[jobId] = @ - 1]

\* workerPool.executeJob(job) up to the point where it suspends
executeJob(S, jobId, t) ==
    IF isShuttingDown
    THEN onRejected(S, jobId, ShuttingDownMessage, t)
    ELSE IF S.availableWorkers # <<>>
         THEN assignWorker([S EXCEPT !.availableWorkers = Tail(@)],
                           Head(S.availableWorkers), jobId)
         ELSE [S EXCEPT !.waiting = Append(@, jobId)]

dispatchJob(S, jobId, t) ==
    LET S0 == [S EXCEPT !.activeExecutions = @ \cup {jobId},
                        !.dispatching[jobId] = @ + 1]
    IN  IF isJobRunning(S0, jobId)
        THEN onRejected(S0, jobId, AlreadyRunningMessage, t)
        ELSE IF emitThrows("job:started")
        THEN onRejected(startJob(S0, jobId, t), jobId, ObserverMessage, t)
        ELSE executeJob(startJob(S0, jobId, t), jobId, t)

\* a poll loop that also sweeps up the RUNNING jobs and does not consult
\* activeExecutions
RECURSIVE dispatchEach(_, _, _)
dispatchEach(S, list, t) ==
    IF list = <<>> THEN S
    ELSE dispatchEach(dispatchJob(S, Head(list), t), Tail(list), t)

dispatchAllWithRunning(S, list, t) ==
    dispatchEach(S, list \o getJobsByStatus(S, "RUNNING"), t)

RECURSIVE dispatchAll(_, _, _)
dispatchAll(S, list, t) ==
    IF list = <<>> THEN S
    ELSE CHOOSE after \in {dispatchAll(next, Tail(list), t) :
                              next \in {IF Head(list) \in S.activeExecutions
                                        THEN S
                                        ELSE dispatchJob(S, Head(list), t)}} : TRUE

\* ---------------------------------------------------------- pool handlers
handleJobSuccess(S, w, message, t) ==
    LET has == message.jobId \in S.jobCallbacks
        S1 == [S EXCEPT !.jobCallbacks = @ \ {message.jobId}]
        S2 == releaseWorker(S1, w)
    IN  IF has THEN onResolved(S2, message.jobId, t) ELSE S2

handleJobFailure(S, w, message, t) ==
    LET has == message.jobId \in S.jobCallbacks
        S1 == [S EXCEPT !.jobCallbacks = @ \ {message.jobId}]
        S2 == releaseWorker(S1, w)
    IN  IF has THEN onRejected(S2, message.jobId, message.error, t) ELSE S2

\* the part handleWorkerError and handleWorkerExit share: fail the job the
\* worker holds, then remove the worker
failCurrentJob(S, w, errorMessage, t) ==
    LET id == S.currentJob[w]
        has == id # 0 /\ id \in S.jobCallbacks
        S1 == IF has THEN [S EXCEPT !.jobCallbacks = @ \ {id}] ELSE S
        S2 == removeWorker(S1, w)
    IN  IF has THEN onRejected(S2, id, errorMessage, t) ELSE S2

\* ------------------------------------------------------------------ state
MasterState ==
    [jobs |-> jobs[Master], jobsByStatus |-> jobsByStatus[Master], events |-> events,
     activeExecutions |-> activeExecutions, dispatching |-> dispatching,
     workers |-> workers,
     availableWorkers |-> availableWorkers, busyWorkers |-> busyWorkers,
     currentJob |-> currentJob, jobCallbacks |-> jobCallbacks, waiting |-> waiting,
     thread |-> thread, threadJob |-> threadJob, chan |-> chan]

\* the master's fields after a handler has run
Commit(after) ==
    \E S \in {after} :
        /\ jobs' = [jobs EXCEPT ![Master] = S.jobs]
        /\ jobsByStatus' = [jobsByStatus EXCEPT ![Master] = S.jobsByStatus]
        /\ events' = S.events
        /\ activeExecutions' = S.activeExecutions
        /\ dispatching' = S.dispatching
        /\ workers' = S.workers
        /\ availableWorkers' = S.availableWorkers
        /\ busyWorkers' = S.busyWorkers
        /\ currentJob' = S.currentJob
        /\ jobCallbacks' = S.jobCallbacks
        /\ waiting' = S.waiting
        /\ thread' = S.thread
        /\ threadJob' = S.threadJob
        /\ chan' = S.chan

ProcState(p) ==
    [jobs |-> jobs[p], jobsByStatus |-> jobsByStatus[p], events |-> events]

UsedIds == {id \in JobIds : \E p \in Procs : jobs[p][id] # NoJob}
\* uuidv4(): an id no process has handed out yet
FreshId == CHOOSE id \in JobIds \ UsedIds : \A other \in JobIds \ UsedIds : id <= other

Init ==
    /\ now = 0
    /\ jobs = [p \in Procs |-> [id \in JobIds |-> NoJob]]
    /\ jobsByStatus = [p \in Procs |-> [s \in Statuses |-> <<>>]]
    /\ events = [id \in JobIds |-> <<>>]
    /\ isRunning = TRUE
    /\ isPaused = FALSE
    /\ schedulerTimer = TRUE
    /\ activeExecutions = {}
    /\ dispatching = [id \in JobIds |-> 0]
    /\ workers = [i \in 1..poolSize |-> i]
    /\ availableWorkers = [i \in 1..poolSize |-> i]
    /\ busyWorkers = [w \in WorkerIds |-> 0]
    /\ currentJob = [w \in WorkerIds |-> 0]
    /\ jobCallbacks = {}
    /\ waiting = <<>>
    /\ isShuttingDown = FALSE
    /\ thread = [w \in WorkerIds |-> IF w <= poolSize THEN "idle" ELSE "unborn"]
    /\ threadJob = [w \in WorkerIds |-> 0]
    /\ chan = [w \in WorkerIds |-> <<>>]
    /\ response = NoResponse
    /\ call = NoCall
    /\ observer = NoObserver
    /\ poolShutdown = "no"
    /\ gracefulIsShuttingDown = FALSE
    /\ handlerStatus = [k \in Handlers |-> "registered"]
    /\ handlerRuns = [k \in Handlers |-> 0]
    /\ signals = 0
    /\ forceExitTimer = FALSE
    /\ exitCode = Null

\* ---------------------------------------------------------------- actions
\* time passes
Tick ==
    /\ now < MaxTime
    /\ now' = now + ClockStep
    /\ UNCHANGED <<storeVars, schedVars, poolVars, response, clientVars, shutdownVars>>

\* queueManager.createJob(type, payload, options) called in process p
CreateJobIn(p, payload, optMaxAttempts) ==
    /\ UsedIds # JobIds
    /\ createJobThrows(ProcState(p)) = NoError
    /\ LET S == createJob(ProcState(p), FreshId, payload, optMaxAttempts, now)
       IN  /\ jobs' = [jobs EXCEPT ![p] = S.jobs]
           /\ jobsByStatus' = [jobsByStatus EXCEPT ![p] = S.jobsByStatus]
           /\ events' = S.events
    /\ UNCHANGED <<now, schedVars, poolVars>>

\* a submission made in the process that runs the scheduler
Submit ==
    /\ \E payload \in Payloads, optMaxAttempts \in MaxAttemptsOptions :
           CreateJobIn(Master, payload, optMaxAttempts)
    /\ UNCHANGED <<response, clientVars, shutdownVars>>

Response(method, p, id, code) == [method |-> method, proc |-> p, id |-> id, code |-> code]

\* a catch block that answers every error with 500
StatusOfErrorAlways500(message) == 500

\* the catch block of createEmailJob: 503 for the queue-full error, else 500
StatusOfError(message) == IF message = QueueFullMessage THEN 503 ELSE 500

\* POST /jobs/email served by API server process p: createEmailJob
createEmailJob(p, body) ==
    /\ IF body = "invalid"
       THEN /\ response' = Response("POST", p, 0, 400)
            /\ UNCHANGED <<now, storeVars, schedVars, poolVars>>
       ELSE IF createJobThrows(ProcState(p)) # NoError
       THEN /\ response' = Response("POST", p, 0, StatusOfError(createJobThrows(ProcState(p))))
            /\ UNCHANGED <<now, storeVars, schedVars, poolVars>>
       ELSE /\ CreateJobIn(p, "valid", 0)
            /\ response' = Response("POST", p, FreshId, 201)
    /\ UNCHANGED <<clientVars, shutdownVars>>

PostJobsEmail ==
    \E p \in ApiProcs, body \in Payloads : createEmailJob(p, body)

\* GET /jobs/:id served by API server process p: getJobStatus
getJobStatus(p, id) ==
    /\ response' = Response("GET", p, id, IF jobs[p][id] = NoJob THEN 404 ELSE 200)
    /\ UNCHANGED <<now, storeVars, schedVars, poolVars, clientVars, shutdownVars>>

GetJobsId ==
    \E p \in ApiProcs, id \in JobIds : getJobStatus(p, id)

\* poll's first test: skip if paused or shutting down
pollSkips == isPaused \/ ~isRunning

\* the scheduler's timer fires
Poll ==
    /\ schedulerTimer
    /\ IF pollSkips
       THEN /\ schedulerTimer' = FALSE
            /\ UNCHANGED <<storeVars, activeExecutions, dispatching, poolVars>>
       ELSE /\ Commit(dispatchAll(MasterState,
                                  getJobsReadyForExecution(MasterState, now), now))
            /\ schedulerTimer' = isRunning
            /\ UNCHANGED isShuttingDown
    /\ UNCHANGED <<now, isRunning, isPaused, response, clientVars, shutdownVars>>

Message(type, jobId, error) == [type |-> type, jobId |-> jobId, error |-> error]

\* taskRunner.executeJob of the worker thread ends; the thread posts the outcome.
\* A payload that fails the executor's validation fails on every attempt; a
\* valid one is sent, which succeeds or is refused by the mail server.
WorkerFinish(w) ==
    /\ thread[w] = "executing"
    /\ \E ok \in BOOLEAN :
        LET job == jobs[Master][threadJob[w]]
            message ==
                IF job.payload = "invalid"
                THEN Message("failure", threadJob[w], InvalidAddressMessage)
                ELSE IF ok THEN Message("success", threadJob[w], NoError)
                           ELSE Message("failure", threadJob[w], SendFailedMessage)
        IN  chan' = [chan EXCEPT ![w] = Append(@, message)]
    /\ thread' = [thread EXCEPT ![w] = "idle"]
    /\ threadJob' = [threadJob EXCEPT ![w] = 0]
    /\ UNCHANGED <<now, response, clientVars, shutdownVars, storeVars, schedVars, workers, availableWorkers, busyWorkers,
                   currentJob, jobCallbacks, waiting, isShuttingDown>>

\* worker.on('message'): handleWorkerMessage
HandleWorkerMessage(w) ==
    /\ chan[w] # <<>>
    /\ LET message == Head(chan[w])
           S == [MasterState EXCEPT !.chan[w] = Tail(@)]
       IN  Commit(CASE message.type = "success" -> handleJobSuccess(S, w, message, now)
                    [] message.type = "failure" -> handleJobFailure(S, w, message, now)
                    [] OTHER -> S)
    /\ UNCHANGED <<now, isRunning, isPaused, schedulerTimer, isShuttingDown, response, clientVars, shutdownVars>>

\* one firing of the setInterval of a waiting getAvailableWorker call that
\* finds a worker; executeJob then goes on with it
WaiterCheck(i) ==
    /\ i \in DOMAIN waiting
    /\ availableWorkers # <<>>
    /\ Commit(assignWorker([MasterState EXCEPT
                                !.availableWorkers = Tail(@),
                                !.waiting = SubSeq(@, 1, i - 1) \o SubSeq(@, i + 1, Len(@))],
                           Head(availableWorkers), waiting[i]))
    /\ UNCHANGED <<now, isRunning, isPaused, schedulerTimer, isShuttingDown, response, clientVars, shutdownVars>>

UnbornThreads == {w \in WorkerIds : thread[w] = "unborn"}
NextThread == CHOOSE w \in UnbornThreads : \A other \in UnbornThreads : w <= other

\* a worker thread dies of an uncaught error: worker.on('error'), handleWorkerError
WorkerError(w) ==
    /\ thread[w] \in {"idle", "executing"}
    /\ isShuttingDown \/ UnbornThreads # {}
    /\ LET S == failCurrentJob([MasterState EXCEPT !.thread[w] = "errored",
                                                   !.threadJob[w] = 0],
                               w, CrashMessage, now)
       IN  Commit(IF isShuttingDown THEN S
                  ELSE [S EXCEPT !.thread[NextThread] = "starting"])
    /\ UNCHANGED <<now, isRunning, isPaused, schedulerTimer, isShuttingDown, response, clientVars, shutdownVars>>

\* a new worker thread posts 'ready': readyHandler of createWorker
WorkerReady(w) ==
    /\ thread[w] = "starting"
    /\ thread' = [thread EXCEPT ![w] = "idle"]
    /\ workers' = Append(workers, w)
    /\ availableWorkers' = Append(availableWorkers, w)
    /\ UNCHANGED <<now, response, clientVars, shutdownVars, storeVars, schedVars, busyWorkers, currentJob, jobCallbacks,
                   waiting, isShuttingDown, threadJob, chan>>

\* a worker thread ends: worker.on('exit'), handleWorkerExit. Node delivers
\* the messages the thread has posted before it emits 'exit'.
WorkerExit(w) ==
    /\ thread[w] \in {"idle", "executing", "errored"}
    /\ chan[w] = <<>>
    /\ Commit(failCurrentJob([MasterState EXCEPT !.thread[w] = "exited",
                                                 !.threadJob[w] = 0],
                             w, ExitMessage, now))
    /\ UNCHANGED <<now, isRunning, isPaused, schedulerTimer, isShuttingDown, response, clientVars, shutdownVars>>

Next ==
    \/ Tick
    \/ Submit
    \/ Poll
    \/ \E w \in WorkerIds : WorkerFinish(w)
    \/ \E w \in WorkerIds : HandleWorkerMessage(w)
    \/ \E i \in 1..MaxJobs : WaiterCheck(i)
    \/ \E w \in WorkerIds : WorkerError(w)
    \/ \E w \in WorkerIds : WorkerReady(w)
    \/ \E w \in WorkerIds : WorkerExit(w)

Spec == Init /\ [][Next]_vars

\* ------------------------------------------------- the deployed cluster
\* The program as index.js starts it: the master process runs the scheduler
\* and the worker pool, the forked API server processes serve the HTTP
\* requests, each on the QueueManager of its own process. Nothing in the
\* master calls createJob. The master's event loop serves its timer.
ClusterNext ==
    \/ Tick
    \/ Poll
    \/ PostJobsEmail
    \/ GetJobsId

ClusterSpec ==
    /\ Init
    /\ [][ClusterNext]_vars
    /\ WF_vars(Tick)
    /\ WF_vars(Poll)

\* ------------------------------------------- the scheduler left to finish
\* The master process with jobs submitted to its own queue, in a run where
\* no worker thread dies, a job's execution takes less than a clock step,
\* and the event loop serves every timer and every message.

\* the master process has work it can do at the present instant
Busy ==
    \/ \E w \in WorkerIds : thread[w] = "executing" \/ chan[w] # <<>>
    \/ waiting # <<>> /\ availableWorkers # <<>>
    \/ /\ schedulerTimer /\ isRunning /\ ~isPaused
       /\ \E id \in Range(getJobsReadyForExecution(MasterState, now)) :
              id \notin activeExecutions

LiveTick == ~Busy /\ Tick

LiveNext ==
    \/ LiveTick
    \/ Submit
    \/ Poll
    \/ \E w \in WorkerIds : WorkerFinish(w)
    \/ \E w \in WorkerIds : HandleWorkerMessage(w)
    \/ \E i \in 1..MaxJobs : WaiterCheck(i)

\* what the master's event loop and its worker threads do on their own
MasterStep ==
    \/ LiveTick
    \/ Poll
    \/ \E w \in WorkerIds : WorkerFinish(w)
    \/ \E w \in WorkerIds : HandleWorkerMessage(w)
    \/ \E i \in 1..MaxJobs : WaiterCheck(i)

\* the run does not stop while a timer, a message or a thread is pending
LiveSpec ==
    /\ Init
    /\ [][LiveNext]_vars
    /\ WF_vars(MasterStep)

\* ------------------------------------------- the scheduler paused and resumed
\* The master process as in the run above, where some code of the process
\* calls scheduler.pause() and scheduler.resume() at any time.
Pause ==
    /\ isRunning
    /\ isPaused' = TRUE
    /\ schedulerTimer' = FALSE
    /\ UNCHANGED <<now, storeVars, isRunning, activeExecutions, dispatching, poolVars,
                   response, clientVars, shutdownVars>>

\* resume that forgets scheduleNextPoll
ResumeForgetsTimer ==
    /\ isRunning /\ isPaused
    /\ isPaused' = FALSE
    /\ UNCHANGED <<now, storeVars, isRunning, schedulerTimer, activeExecutions, dispatching,
                   poolVars, response, clientVars, shutdownVars>>

Resume ==
    /\ isRunning /\ isPaused
    /\ isPaused' = FALSE
    /\ schedulerTimer' = TRUE
    /\ UNCHANGED <<now, storeVars, isRunning, activeExecutions, dispatching, poolVars,
                   response, clientVars, shutdownVars>>

PauseNext ==
    \/ LiveNext
    \/ Pause
    \/ Resume

PauseSpec == Init /\ [][PauseNext]_vars

\* ------------------------------------------------ an observer that fails
\* The master process as in the run above, where some code of the process
\* registers one more listener on the exported emitter, jobEvents.on(name, f),
\* and f throws whenever it is called.
Subscribe(name) ==
    /\ observer = NoObserver
    /\ observer' = name
    /\ UNCHANGED <<now, storeVars, schedVars, poolVars, response, call, shutdownVars>>

ObserverNext ==
    \/ LiveNext
    \/ \E name \in ObservedEvents : Subscribe(name)

ObserverSpec == Init /\ [][ObserverNext]_vars

\* ------------------------------------------- a replacement that is late
\* the 5000 ms timer of createWorker fires before the thread has posted
\* 'ready': readyHandler is taken off and the promise rejects. The thread
\* lives on; its 'ready' finds no listener but handleWorkerMessage, which
\* has no case for it.
WorkerInitTimeout(w) ==
    /\ thread[w] = "starting"
    /\ thread' = [thread EXCEPT ![w] = "uncounted"]
    /\ UNCHANGED <<now, response, clientVars, shutdownVars, storeVars, schedVars, workers,
                   availableWorkers, busyWorkers, currentJob, jobCallbacks, waiting,
                   isShuttingDown, threadJob, chan>>

\* the master with worker threads that crash, exit, are replaced, and
\* replacements that signal 'ready' in time or not
ReplaceNext ==
    \/ LiveNext
    \/ \E w \in WorkerIds : WorkerError(w)
    \/ \E w \in WorkerIds : WorkerReady(w)
    \/ \E w \in WorkerIds : WorkerExit(w)
    \/ \E w \in WorkerIds : WorkerInitTimeout(w)

ReplaceSpec == Init /\ [][ReplaceNext]_vars

\* ------------------------------------- an uncaught error in a worker thread
\* worker-error messages a worker thread may have in flight
MaxErrors == 1

\* process.on('uncaughtException') / process.on('unhandledRejection') of the
\* worker thread while it executes a job: the handler posts 'worker-error'
\* and the thread lives on. The send the error came out of either settles
\* later all the same or never settles.
WorkerUncaught(w) ==
    /\ thread[w] = "executing"
    /\ Len(chan[w]) < MaxErrors
    /\ chan' = [chan EXCEPT ![w] = Append(@, Message("worker-error", 0, UncaughtMessage))]
    /\ \E settles \in BOOLEAN :
           thread' = [thread EXCEPT ![w] = IF settles THEN "executing" ELSE "hung"]
    /\ UNCHANGED <<now, response, clientVars, shutdownVars, storeVars, schedVars, workers, availableWorkers,
                   busyWorkers, currentJob, jobCallbacks, waiting, isShuttingDown, threadJob>>

UncaughtNext ==
    \/ LiveNext
    \/ \E w \in WorkerIds : WorkerUncaught(w)

UncaughtSpec == Init /\ [][UncaughtNext]_vars

\* ------------------------------------------------- the shutdown coordinator
\* GracefulShutdown in a process that has registered NumHandlers handlers and
\* has called setupSignalHandlers. What a handler does is left open here: it
\* resolves, rejects (or throws), or never settles.
\* signals a process may receive
MaxSignals == 2

CoordState ==
    [gracefulIsShuttingDown |-> gracefulIsShuttingDown, handlerStatus |-> handlerStatus,
     handlerRuns |-> handlerRuns, forceExitTimer |-> forceExitTimer, exitCode |-> exitCode]

CommitCoord(after) ==
    \E H \in {after} :
        /\ gracefulIsShuttingDown' = H.gracefulIsShuttingDown
        /\ handlerStatus' = H.handlerStatus
        /\ handlerRuns' = H.handlerRuns
        /\ forceExitTimer' = H.forceExitTimer
        /\ exitCode' = H.exitCode

\* a guard that never finds a shutdown in progress
alreadyShuttingDownNever == FALSE

\* shutdown's first test
alreadyShuttingDown == gracefulIsShuttingDown

\* the loop body up to `await handler()`
startHandler(H, k) ==
    [H EXCEPT !.handlerStatus[k] = "running", !.handlerRuns[k] = @ + 1]

\* process.exit(code); the pending forceExitTimer dies with the process
exit(H, code) == [H EXCEPT !.exitCode = code, !.forceExitTimer = FALSE]

\* an inner catch that lets the error of a handler through to the outer one
continuesAfterResolvedOnly(outcome) == outcome = "resolved"

\* the inner try/catch around `await handler()`: the loop goes on either way
continuesAfter(outcome) == outcome \in {"resolved", "rejected"}

\* `await handler()` of handler k has settled: the rest of the loop
handlerSettled(H, k, outcome) ==
    LET H1 == [H EXCEPT !.handlerStatus[k] = outcome] IN
    IF ~continuesAfter(outcome) THEN exit(H1, 1)
    ELSE IF k < NumHandlers THEN startHandler(H1, k + 1)
    ELSE exit(H1, 0)

\* GracefulShutdown.shutdown up to its first await
shutdown(H) ==
    IF alreadyShuttingDown THEN H
    ELSE startHandler([H EXCEPT !.gracefulIsShuttingDown = TRUE, !.forceExitTimer = TRUE], 1)

\* process.on('SIGINT') / process.on('SIGTERM')
Signal ==
    /\ exitCode = Null
    /\ signals < MaxSignals
    /\ signals' = signals + 1
    /\ CommitCoord(shutdown(CoordState))
    /\ UNCHANGED <<now, storeVars, schedVars, poolVars, response, clientVars, poolShutdown>>

HandlerSettles(k, outcome) ==
    /\ exitCode = Null
    /\ handlerStatus[k] = "running"
    /\ CommitCoord(handlerSettled(CoordState, k, outcome))
    /\ UNCHANGED <<now, storeVars, schedVars, poolVars, response, clientVars, poolShutdown,
                   signals>>

\* a forceExitTimer callback that logs the timeout and leaves the process running
ForceExitWithoutExit ==
    /\ exitCode = Null
    /\ forceExitTimer
    /\ forceExitTimer' = FALSE
    /\ UNCHANGED <<now, storeVars, schedVars, poolVars, response, clientVars, poolShutdown,
                   signals, gracefulIsShuttingDown, handlerStatus, handlerRuns, exitCode>>

\* the forceExitTimer fires, shutdownTimeout after shutdown began
ForceExit ==
    /\ exitCode = Null
    /\ forceExitTimer
    /\ CommitCoord(exit(CoordState, 1))
    /\ UNCHANGED <<now, storeVars, schedVars, poolVars, response, clientVars, poolShutdown,
                   signals>>

\* time passes in a running process
ProcessTick == exitCode = Null /\ Tick

CoordNext ==
    \/ ProcessTick
    \/ Signal
    \/ \E k \in Handlers, outcome \in {"resolved", "rejected"} : HandlerSettles(k, outcome)
    \/ ForceExit

\* the timer of a running process fires
CoordSpec ==
    /\ Init
    /\ [][CoordNext]_vars
    /\ WF_vars(ForceExit)

\* ------------------------------------------------ the worker pool shut down
\* the master's scheduler, pool and coordinator together
FullState ==
    [jobs |-> jobs[Master], jobsByStatus |-> jobsByStatus[Master], events |-> events,
     activeExecutions |-> activeExecutions, dispatching |-> dispatching,
     workers |-> workers,
     availableWorkers |-> availableWorkers, busyWorkers |-> busyWorkers,
     currentJob |-> currentJob, jobCallbacks |-> jobCallbacks, waiting |-> waiting,
     thread |-> thread, threadJob |-> threadJob, chan |-> chan,
     isRunning |-> isRunning, isPaused |-> isPaused, schedulerTimer |-> schedulerTimer,
     isShuttingDown |-> isShuttingDown, poolShutdown |-> poolShutdown,
     gracefulIsShuttingDown |-> gracefulIsShuttingDown, handlerStatus |-> handlerStatus,
     handlerRuns |-> handlerRuns, forceExitTimer |-> forceExitTimer, exitCode |-> exitCode]

CommitFull(after) ==
    \E F \in {after} :
        /\ Commit(F)
        /\ CommitCoord(F)
        /\ isRunning' = F.isRunning
        /\ isPaused' = F.isPaused
        /\ schedulerTimer' = F.schedulerTimer
        /\ isShuttingDown' = F.isShuttingDown
        /\ poolShutdown' = F.poolShutdown

hasBusyWorkers(F) == \E w \in WorkerIds : F.busyWorkers[w] # 0

\* the third handler the master registers: the API workers are sent
\* 'shutdown' and the handler waits for their exits, at most 10 s
apiClusterHandler(F) == F

\* WorkerPool.shutdown returns; in the master its caller is the second
\* handler, after which the coordinator calls the third
shutdownReturns(F) ==
    LET F1 == [F EXCEPT !.poolShutdown = "done"] IN
    IF F.handlerStatus[2] = "running"
    THEN apiClusterHandler(handlerSettled(F1, 2, "resolved"))
    ELSE F1

\* worker.terminate() for every worker of the pool, then await Promise.all
terminateWorkers(F) ==
    LET F1 == [F EXCEPT !.poolShutdown = "terminating",
                        !.thread = [w \in WorkerIds |->
                                       IF w \in Range(F.workers) THEN "terminated" ELSE @[w]],
                        !.threadJob = [w \in WorkerIds |->
                                          IF w \in Range(F.workers) THEN 0 ELSE @[w]]]
    IN  IF F.workers = <<>> THEN shutdownReturns(F1) ELSE F1

\* a shutdown loop that does not wait for the busy workers
drainWithoutWaiting(F) == terminateWorkers(F)

\* the loop of WorkerPool.shutdown: one test of hasBusyWorkers
drain(F) ==
    IF hasBusyWorkers(F) THEN [F EXCEPT !.poolShutdown = "draining"]
    ELSE terminateWorkers(F)

\* WorkerPool.shutdown up to its first await
poolShutdownBegin(F) == drain([F EXCEPT !.isShuttingDown = TRUE])

\* some code of the master process calls workerPool.shutdown()
PoolShutdown ==
    /\ exitCode = Null
    /\ poolShutdown = "no"
    /\ CommitFull(poolShutdownBegin(FullState))
    /\ UNCHANGED <<now, response, clientVars, signals>>

\* the 1000 ms timer of the loop of WorkerPool.shutdown fires
DrainCheck ==
    /\ exitCode = Null
    /\ poolShutdown = "draining"
    /\ CommitFull(drain(FullState))
    /\ UNCHANGED <<now, response, clientVars, signals>>

\* a terminated worker thread has ended: worker.on('exit') runs
\* handleWorkerExit and the promise of terminate() resolves; the last of
\* them lets WorkerPool.shutdown return
WorkerTerminated(w) ==
    /\ exitCode = Null
    /\ thread[w] = "terminated"
    /\ LET F == failCurrentJob([FullState EXCEPT !.thread[w] = "exited"], w, ExitMessage, now)
       IN  CommitFull(IF \E other \in WorkerIds : F.thread[other] = "terminated"
                      THEN F
                      ELSE shutdownReturns(F))
    /\ UNCHANGED <<now, response, clientVars, signals>>

\* the pool with workerPool.shutdown() called at any time of the master's run
PoolNext ==
    \/ LiveNext
    \/ PoolShutdown
    \/ DrainCheck
    \/ \E w \in WorkerIds : WorkerTerminated(w)

\* what the master's event loop and its worker threads do on their own
PoolStep ==
    \/ MasterStep
    \/ DrainCheck
    \/ \E w \in WorkerIds : WorkerTerminated(w)

\* the run does not stop while a timer, a message or a thread is pending
PoolSpec ==
    /\ Init
    /\ [][PoolNext]_vars
    /\ WF_vars(PoolStep)

\* -------------------------------------------- the master's shutdown sequence
\* The three handlers the master registers, run by the coordinator: the
\* scheduler, the worker pool, the API workers.
\* a pause() that leaves the scheduler polling
schedulerPauseLeavesPolling(F) == F

\* Scheduler.pause
schedulerPause(F) ==
    IF ~F.isRunning THEN F
    ELSE [F EXCEPT !.isPaused = TRUE, !.schedulerTimer = FALSE]

\* Scheduler.stop
schedulerStop(F) ==
    [F EXCEPT !.isRunning = FALSE, !.isPaused = FALSE, !.schedulerTimer = FALSE]

hasActiveExecutions(F) == F.activeExecutions # {}

\* the second handler: `await workerPool.shutdown()`
workerPoolHandler(F) == poolShutdownBegin(F)

\* the first handler after waitForActiveExecutions has returned:
\* scheduler.stop(), then the coordinator calls the second handler
schedulerHandlerEnds(F) ==
    workerPoolHandler(handlerSettled(schedulerStop(F), 1, "resolved"))

\* a waitForActiveExecutions that returns without looking at the set
waitForActiveExecutionsAtOnce(F) == schedulerHandlerEnds(F)

\* the loop of Scheduler.waitForActiveExecutions: one test of
\* hasActiveExecutions; the caller goes on when the loop ends
waitForActiveExecutions(F) ==
    IF hasActiveExecutions(F) THEN F ELSE schedulerHandlerEnds(F)

\* the first handler up to its first await
schedulerHandler(F) == waitForActiveExecutions(schedulerPause(F))

\* gracefulShutdown.shutdown(signal) in the master
masterShutdown(F) ==
    IF alreadyShuttingDown THEN F ELSE schedulerHandler(shutdown(F))

\* the master receives SIGINT or SIGTERM
MasterSignal ==
    /\ exitCode = Null
    /\ signals < MaxSignals
    /\ signals' = signals + 1
    /\ CommitFull(masterShutdown(FullState))
    /\ UNCHANGED <<now, response, clientVars>>

\* the 1000 ms timer of the loop of waitForActiveExecutions fires
WaitCheck ==
    /\ exitCode = Null
    /\ handlerStatus[1] = "running"
    /\ CommitFull(waitForActiveExecutions(FullState))
    /\ UNCHANGED <<now, response, clientVars, signals>>

\* the API workers have exited, or the 10 s timer of the third handler fires
ApiWorkersGone == HandlerSettles(3, "resolved")

\* the master process while it has not exited
MasterRuns == exitCode = Null /\ LiveNext

\* (no worker thread is lost in these runs, so no worker is busy when the
\* second handler starts and the loop of WorkerPool.shutdown ends at its
\* first test)
MasterShutdownNext ==
    \/ MasterRuns
    \/ MasterSignal
    \/ WaitCheck
    \/ \E w \in WorkerIds : WorkerTerminated(w)
    \/ ApiWorkersGone
    \/ ForceExit

\* what the master's event loop and its worker threads do on their own
MasterShutdownStep ==
    \/ exitCode = Null /\ MasterStep
    \/ WaitCheck
    \/ \E w \in WorkerIds : WorkerTerminated(w)
    \/ ApiWorkersGone

\* the run does not stop while a timer, a message or a thread is pending
MasterShutdownSpec ==
    /\ Init
    /\ [][MasterShutdownNext]_vars
    /\ WF_vars(MasterShutdownStep)

\* ------------------------------------------- the QueueManager called directly
\* The public operations of the QueueManager of the master process, called
\* by any code of that process in any order, within one instant.
\* events a job may have gathered when a further call on it is made
MaxEvents == 4

Call(op, id, error) == [op |-> op, id |-> id, error |-> error]

\* the store of the master process after a QueueManager call
CommitStore(after) ==
    \E S \in {after} :
        /\ jobs' = [jobs EXCEPT ![Master] = S.jobs]
        /\ jobsByStatus' = [jobsByStatus EXCEPT ![Master] = S.jobsByStatus]
        /\ events' = S.events

Callable(id) == jobs[Master][id] # NoJob /\ Len(events[id]) <= MaxEvents

QmCreateJob ==
    /\ UsedIds # JobIds
    /\ \E optMaxAttempts \in MaxAttemptsOptions :
           LET S == ProcState(Master) IN
           IF createJobThrows(S) # NoError
           THEN /\ call' = Call("createJob", 0, createJobThrows(S))
                /\ UNCHANGED storeVars
           ELSE /\ call' = Call("createJob", FreshId, NoError)
                /\ CommitStore(createJob(S, FreshId, "valid", optMaxAttempts, now))
    /\ UNCHANGED <<now, schedVars, poolVars, response, observer, shutdownVars>>

QmStartJob(id) ==
    /\ Callable(id)
    /\ LET S == ProcState(Master) IN
       IF startJobThrows(S, id) # NoError
       THEN /\ call' = Call("startJob", id, startJobThrows(S, id))
            /\ UNCHANGED storeVars
       ELSE /\ call' = Call("startJob", id, NoError)
            /\ CommitStore(startJob(S, id, now))
    /\ UNCHANGED <<now, schedVars, poolVars, response, observer, shutdownVars>>

QmCompleteJob(id) ==
    /\ Callable(id)
    /\ call' = Call("completeJob", id, NoError)
    /\ CommitStore(completeJob(ProcState(Master), id, now))
    /\ UNCHANGED <<now, schedVars, poolVars, response, observer, shutdownVars>>

QmFailJob(id) ==
    /\ Callable(id)
    /\ call' = Call("failJob", id, NoError)
    /\ CommitStore(failJob(ProcState(Master), id, SendFailedMessage, now))
    /\ UNCHANGED <<now, schedVars, poolVars, response, observer, shutdownVars>>

QueueNext ==
    \/ QmCreateJob
    \/ \E id \in JobIds : QmStartJob(id)
    \/ \E id \in JobIds : QmCompleteJob(id)
    \/ \E id \in JobIds : QmFailJob(id)

QueueSpec == Init /\ [][QueueNext]_vars

\* ============================================================ properties
\* the jobs the process running the scheduler holds
Held(p) == {id \in JobIds : jobs[p][id] # NoJob}
Terminal(job) == job # NoJob /\ job.status \in {"COMPLETED", "DEAD"}
\* indices of the events of a sequence that carry a name
Named(e, name) == {i \in DOMAIN e : e[i].name = name}
\* number of job:started events among the first n events
StartedBefore(e, n) == Cardinality({i \in Named(e, "job:started") : i < n})

\* C1: at most one dispatch of a job id is in progress at any time, and a
\* second job:started for an id comes only after a job:completed or
\* job:failed for the earlier one.
C1_AtMostOneDispatchInProgress ==
    \A id \in JobIds :
        /\ dispatching[id] <= 1
        /\ \A i, k \in Named(events[id], "job:started") :
               i < k => \E m \in (i + 1)..(k - 1) :
                            events[id][m].name \in {"job:completed", "job:failed"}

\* a job is in its second dispatch
C1_Witness_SecondDispatchRunning ==
    \E id \in Held(Master) :
        /\ jobs[Master][id].status = "RUNNING"
        /\ dispatching[id] = 1
        /\ Cardinality(Named(events[id], "job:started")) >= 2

\* C2: every job of a store is in exactly one status set, the set of its
\* status field.
C2_ExactlyOneStatusSet ==
    \A p \in Procs :
        /\ \A id \in Held(p), s \in Statuses :
               (id \in Range(jobsByStatus[p][s])) <=> (s = jobs[p][id].status)
        /\ \A id \in JobIds \ Held(p), s \in Statuses :
               id \notin Range(jobsByStatus[p][s])
        /\ \A s \in Statuses :
               Cardinality(Range(jobsByStatus[p][s])) = Len(jobsByStatus[p][s])

\* a job has moved through the sets PENDING, RUNNING, FAILED, RETRYING and
\* stands in RUNNING again while another one is COMPLETED
C2_Witness_JobsMovedBetweenSets ==
    \E id, other \in Held(Master) :
        /\ jobs[Master][id].status = "RUNNING"
        /\ jobs[Master][id].attempts = 2
        /\ jobs[Master][other].status = "COMPLETED"

\* C3: attempts never exceeds maxAttempts, and a DEAD job has
\* attempts = maxAttempts.
C3_AttemptsBounded ==
    \A p \in Procs : \A id \in Held(p) :
        /\ jobs[p][id].attempts <= jobs[p][id].maxAttempts
        /\ jobs[p][id].status = "DEAD" => jobs[p][id].attempts = jobs[p][id].maxAttempts

\* a job with the default three attempts has used them all and is DEAD
C3_Witness_DeadAfterAllAttempts ==
    \E id \in Held(Master) :
        /\ jobs[Master][id].status = "DEAD"
        /\ jobs[Master][id].maxAttempts = MAX_JOB_ATTEMPTS
        /\ jobs[Master][id].attempts = MAX_JOB_ATTEMPTS

C7_RetryDelayDoublesFromBase ==
    \A id \in JobIds : \A i \in Named(events[id], "job:retrying") :
        LET n == StartedBefore(events[id], i) IN
        /\ events[id][i].retryDelay = RETRY_BACKOFF_BASE_MS * (2 ^ (n - 1))
        /\ (i = Len(events[id]) /\ id \in Held(Master)) =>
               \E t \in 0..now : jobs[Master][id].retryAt = t + events[id][i].retryDelay

\* the step is a failJob call for a RUNNING job: it appends job:failed
FailJobStep(id) ==
    /\ jobs[Master][id] # NoJob
    /\ jobs[Master][id].status = "RUNNING"
    /\ Len(events'[id]) > Len(events[id])
    /\ events'[id][Len(events[id]) + 1].name = "job:failed"

\* the error message the step hands to failJob
GivenError(id) ==
    IF \E w \in WorkerIds : /\ chan[w] # <<>>
                            /\ chan'[w] = Tail(chan[w])
                            /\ Head(chan[w]).type = "failure"
                            /\ Head(chan[w]).jobId = id
    THEN LET w == CHOOSE w \in WorkerIds : /\ chan[w] # <<>>
                                           /\ chan'[w] = Tail(chan[w])
                                           /\ Head(chan[w]).type = "failure"
                                           /\ Head(chan[w]).jobId = id
         IN  Head(chan[w]).error
    ELSE IF \E w \in WorkerIds : thread[w] # "errored" /\ thread'[w] = "errored"
    THEN CrashMessage
    ELSE ExitMessage

\* C8: failJob on a RUNNING job takes exactly one of two branches: with
\* attempts < maxAttempts the job becomes RETRYING with retryAt set and
\* finishedAt unset, otherwise it becomes DEAD with finishedAt set; either
\* way its error is the message given.
C8_FailJobBranches ==
    [][\A id \in JobIds :
           FailJobStep(id) =>
               LET before == jobs[Master][id]
                   after == jobs'[Master][id]
               IN  /\ after.error = GivenError(id)
                   /\ IF before.attempts < before.maxAttempts
                      THEN /\ after.status = "RETRYING"
                           /\ after.retryAt # Null
                           /\ after.retryAt > now
                           /\ after.finishedAt = Null
                      ELSE /\ after.status = "DEAD"
                           /\ after.finishedAt = now]_vars

\* failJob has taken both branches for one job: two retries, then DEAD
C8_Witness_BothBranchesTaken ==
    \E id \in Held(Master) :
        /\ jobs[Master][id].status = "DEAD"
        /\ jobs[Master][id].error # NoError
        /\ jobs[Master][id].finishedAt # Null
        /\ Cardinality(Named(events[id], "job:retrying")) = 2
        /\ Cardinality(Named(events[id], "job:dead")) = 1

Accepted == {id \in JobIds : \E p \in ApiProcs : jobs[p][id] # NoJob}

\* C5 (as the specification states it): every job accepted by POST
\* /jobs/email is eventually started by the scheduler, whichever API server
\* process accepted it.
C5_AcceptedJobIsStarted ==
    \A id \in JobIds :
        (id \in Accepted) ~>
            (\E p \in Procs : jobs[p][id] # NoJob /\ jobs[p][id].status # "PENDING")

\* C6 (as the specification states it): once POST /jobs/email has answered
\* 201 with a jobId, every GET /jobs/:id for it answers 200, whichever API
\* server process serves it.
C6_GetFindsAcceptedJob ==
    (response.method = "GET" /\ response.id \in Accepted) => response.code = 200

\* the waiting time the retries of a job with n attempts add up to
RECURSIVE RetryBudget(_)
RetryBudget(n) == IF n <= 1 THEN 0 ELSE RetryBudget(n - 1) + calculateRetryDelay(n - 1)

DeathEvents ==
    <<"job:created", "job:started", "job:failed", "job:retrying", "job:started",
      "job:failed", "job:retrying", "job:started", "job:failed", "job:dead">>

\* the job's executor fails on every attempt, and the clock of the model
\* runs long enough for all its retries
AlwaysFails(id) ==
    /\ jobs[Master][id] # NoJob
    /\ jobs[Master][id].payload = "invalid"
    /\ jobs[Master][id].createdAt + RetryBudget(jobs[Master][id].maxAttempts) <= MaxTime

DiedAfterAllAttempts(id) ==
    /\ jobs[Master][id].status = "DEAD"
    /\ jobs[Master][id].attempts = jobs[Master][id].maxAttempts
    /\ Cardinality(Named(events[id], "job:started")) = jobs[Master][id].maxAttempts
    /\ jobs[Master][id].maxAttempts = 3 =>
           [i \in DOMAIN events[id] |-> events[id][i].name] = DeathEvents

\* C10: a job in the scheduler's queue whose executor fails on every attempt
\* and whose maxAttempts is N is started exactly N times and eventually is
\* DEAD with attempts = N; for N = 3 its events are created, started,
\* failed, retrying, started, failed, retrying, started, failed, dead.
C10_AlwaysFailingJobDies ==
    \A id \in JobIds : AlwaysFails(id) ~> DiedAfterAllAttempts(id)

\* an always failing job with three attempts has gone through all of them
C10_Witness_DiedAfterThreeStarts ==
    \E id \in JobIds :
        /\ AlwaysFails(id)
        /\ jobs[Master][id].maxAttempts = 3
        /\ DiedAfterAllAttempts(id)
        /\ now = MaxTime

\* C11: a Job Store never holds more than MAX_QUEUE_SIZE jobs.
C11_QueueSizeBounded ==
    \A p \in Procs : Cardinality(Held(p)) <= maxQueueSize

\* the store of an API server process is full, ids are left, and a further
\* submission to it has been answered
C11_Witness_FullStoreAskedAgain ==
    \E p \in ApiProcs :
        /\ Cardinality(Held(p)) = maxQueueSize
        /\ UsedIds # JobIds
        /\ response.method = "POST" /\ response.proc = p /\ response.code = 503

\* the step is a POST /jobs/email with a valid body served by process p
ValidPostStep(p) ==
    /\ response' # response
    /\ response'.method = "POST"
    /\ response'.proc = p
    /\ response'.code # 400

\* C12: createJob on a store that holds MAX_QUEUE_SIZE jobs fails with the
\* queue-full error: the job map and the status sets stay as they are, no
\* job:created is emitted, and the HTTP submission is answered 503.
C12_QueueFullRejected ==
    [][\A p \in ApiProcs :
           (Cardinality(Held(p)) = maxQueueSize /\ ValidPostStep(p)) =>
               /\ response'.code = 503
               /\ jobs' = jobs
               /\ jobsByStatus' = jobsByStatus
               /\ events' = events]_vars

\* a submission has been answered 503 and the full store holds exactly the
\* jobs created before, each with its one job:created event
C12_Witness_Answered503 ==
    /\ response.method = "POST"
    /\ response.code = 503
    /\ Len(jobsByStatus[response.proc]["PENDING"]) = maxQueueSize
    /\ \A id \in Held(response.proc) : Len(events[id]) = 1

\* the step is a call of one of the operations ops of the QueueManager on id
CallStep(ops, id) ==
    /\ call'.op \in ops
    /\ call'.id = id
    /\ call' # call \/ jobs' # jobs \/ events' # events

\* C13: startJob on a RUNNING job fails with the already-running error and
\* changes nothing; on a job that is not RUNNING it moves the job to
\* RUNNING, adds exactly 1 to attempts and emits job:started.
C13_StartJobContract ==
    [][\A id \in JobIds :
           CallStep({"startJob"}, id) =>
               IF jobs[Master][id].status = "RUNNING"
               THEN /\ call'.error = AlreadyRunningMessage
                    /\ jobs' = jobs
                    /\ jobsByStatus' = jobsByStatus
                    /\ events' = events
               ELSE /\ call'.error = NoError
                    /\ jobs'[Master][id].status = "RUNNING"
                    /\ jobs'[Master][id].attempts = jobs[Master][id].attempts + 1
                    /\ id \in Range(jobsByStatus'[Master]["RUNNING"])
                    /\ events'[id] = Append(events[id], Event("job:started", 0))
                    /\ \A other \in JobIds \ {id} :
                           /\ jobs'[Master][other] = jobs[Master][other]
                           /\ events'[other] = events[other]]_vars

\* startJob has been refused for a job in its second run
C13_Witness_SecondStartRefused ==
    \E id \in JobIds :
        /\ call = Call("startJob", id, AlreadyRunningMessage)
        /\ jobs[Master][id].status = "RUNNING"
        /\ jobs[Master][id].attempts = 2

\* C14 (as the specification states it): completeJob and failJob on a job
\* that is COMPLETED or DEAD fail with an error, leave the job and the
\* status sets as they are and emit no event.
C14_TerminalJobCallsFail ==
    [][\A id \in JobIds :
           (Terminal(jobs[Master][id]) /\ CallStep({"completeJob", "failJob"}, id)) =>
               /\ call'.error # NoError
               /\ jobs' = jobs
               /\ jobsByStatus' = jobsByStatus
               /\ events' = events]_vars

\* what the scheduler's poll would be handed at this instant
ReadyNow == getJobsReadyForExecution(MasterState, now)

\* the jobs of the master's store that are due by their own fields
Due ==
    {id \in Held(Master) :
        \/ jobs[Master][id].status = "PENDING"
        \/ /\ jobs[Master][id].status = "RETRYING"
           /\ jobs[Master][id].retryAt <= now}

\* C15: getJobsReadyForExecution returns exactly the PENDING jobs and the
\* RETRYING jobs with retryAt <= now, each once: no RUNNING, COMPLETED,
\* FAILED or DEAD job and no RETRYING job with retryAt > now.
C15_ReadyListExact ==
    /\ Range(ReadyNow) = Due
    /\ Len(ReadyNow) = Cardinality(Due)

\* the list holds a RETRYING job that has come due next to a PENDING one,
\* or leaves out a RETRYING job that is not due yet next to a PENDING one
C15_Witness_DueAndNotDue ==
    \E a, b \in Held(Master) :
        /\ jobs[Master][a].status = "RETRYING"
        /\ jobs[Master][b].status = "PENDING"
        /\ jobs[Master][a].retryAt > now
        /\ ReadyNow = <<b>>

\* C16 (as the specification states it): the ready list is ordered by
\* createdAt, ties broken by id, also between a RETRYING and a PENDING job.
C16_ReadyListByCreatedAt ==
    \A i, k \in DOMAIN ReadyNow :
        i < k =>
            \/ jobs[Master][ReadyNow[i]].createdAt < jobs[Master][ReadyNow[k]].createdAt
            \/ /\ jobs[Master][ReadyNow[i]].createdAt = jobs[Master][ReadyNow[k]].createdAt
               /\ ReadyNow[i] < ReadyNow[k]

\* C17: a RETRYING job is not started before its retryAt, and its retryAt
\* lies the delay of its job:retrying event after the failure: at least
\* that delay passes between job:retrying and the next job:started.
C17_NoStartBeforeRetryAt ==
    [][\A id \in Held(Master) :
           /\ (jobs[Master][id].status = "RETRYING" /\ jobs'[Master][id].status = "RUNNING") =>
                  /\ jobs[Master][id].retryAt # Null
                  /\ jobs'[Master][id].startedAt >= jobs[Master][id].retryAt
           /\ (jobs[Master][id].status # "RETRYING" /\ jobs'[Master][id].status = "RETRYING") =>
                  /\ events'[id][Len(events'[id])].name = "job:retrying"
                  /\ jobs'[Master][id].retryAt = now + events'[id][Len(events'[id])].retryDelay]_vars

\* a job runs for the second time, started at or after its retryAt
C17_Witness_RestartedWhenDue ==
    \E id \in Held(Master) :
        /\ jobs[Master][id].status = "RUNNING"
        /\ jobs[Master][id].attempts = 2
        /\ jobs[Master][id].retryAt # Null
        /\ jobs[Master][id].startedAt >= jobs[Master][id].retryAt

\* the step emits for job id, and the first event it emits is name
FirstEmitted(id, name) ==
    /\ Len(events'[id]) > Len(events[id])
    /\ events'[id][Len(events[id]) + 1].name = name

\* C18 (as the specification states it): an observer that throws does not
\* affect the producer. The step in which the scheduler starts a job emits
\* job:started alone and leaves the job RUNNING; the step in which it
\* completes a job emits job:completed alone and leaves the job COMPLETED.
C18_ThrowingObserverIsolated ==
    [][\A id \in Held(Master) :
           /\ FirstEmitted(id, "job:started") =>
                  /\ jobs'[Master][id].status = "RUNNING"
                  /\ events'[id] = Append(events[id], Event("job:started", 0))
           /\ FirstEmitted(id, "job:completed") =>
                  /\ jobs'[Master][id].status = "COMPLETED"
                  /\ events'[id] = Append(events[id], Event("job:completed", 0))]_vars

\* the pool takes a message of the given type from worker w, which holds a
\* job whose executeJob call is pending
TakesWhileHolding(w, type) ==
    /\ chan[w] # <<>>
    /\ Head(chan[w]).type = type
    /\ chan'[w] = Tail(chan[w])
    /\ currentJob[w] # 0
    /\ currentJob[w] \in jobCallbacks

\* C19 (as the specification states it): on a worker-error message from a
\* busy worker the pool rejects the pending executeJob call of the worker's
\* current job, so the job does not stay RUNNING.
C19_WorkerErrorFailsCurrentJob ==
    [][\A w \in WorkerIds :
           TakesWhileHolding(w, "worker-error") =>
               /\ currentJob[w] \notin jobCallbacks'
               /\ jobs'[Master][currentJob[w]].status # "RUNNING"]_vars

\* worker w is in none of the pool's collections after the step
Removed(w) ==
    /\ w \notin Range(workers')
    /\ w \notin Range(availableWorkers')
    /\ busyWorkers'[w] = 0

\* C20 (as the specification states it): a worker's error or exit rejects
\* the executeJob call of the job it holds, once, and removes the worker;
\* the exit that follows an error of the same worker rejects nothing more:
\* it leaves every callback and every job as they are.
C20_CrashRejectsOnce ==
    [][\A w \in WorkerIds :
           /\ (thread[w] \in {"idle", "executing"} /\ thread'[w] \in {"errored", "exited"}) =>
                  /\ jobCallbacks' = jobCallbacks \ {currentJob[w]}
                  /\ Removed(w)
           /\ (thread[w] = "errored" /\ thread'[w] = "exited") =>
                  /\ jobCallbacks' = jobCallbacks
                  /\ jobs' = jobs
                  /\ events' = events
                  /\ Removed(w)]_vars

\* C21 (as the specification states it): when the pool loses a worker, by
\* error or by exit, while it is not shutting down, a replacement is started
\* in the same step, so that the worker count can return to POOL_SIZE.
C21_LostWorkerIsReplaced ==
    [][\A w \in WorkerIds :
           (w \in Range(workers) /\ w \notin Range(workers') /\ ~isShuttingDown) =>
               \E r \in WorkerIds : thread[r] = "unborn" /\ thread'[r] = "starting"]_vars

\* C23 (as the specification states it): a worker that becomes free is given
\* to the executeJob call that has waited longest: no call that began to
\* wait at an earlier time is still in the line when a call leaves it.
C23_WaitersServedFifo ==
    [][\A id \in Range(waiting) \ Range(waiting') :
           \A other \in Range(waiting) :
               jobs[Master][other].startedAt >= jobs[Master][id].startedAt]_vars

\* the pool takes the result message of a job whose executeJob call is pending
TakesResultOf(id) ==
    \E w \in WorkerIds :
        /\ chan[w] # <<>>
        /\ Head(chan[w]).type \in {"success", "failure"}
        /\ Head(chan[w]).jobId = id
        /\ chan'[w] = Tail(chan[w])
        /\ id \in jobCallbacks

\* C24: while the scheduler is paused no job goes from PENDING or RETRYING
\* to RUNNING; pause() leaves the dispatches in flight as they are, and a
\* result that arrives during the pause still ends its dispatch in
\* completeJob or failJob; resume() sets the poll timer again.
C24_PauseHoldsStartsOnly ==
    [][/\ isPaused =>
              \A id \in Held(Master) :
                  /\ ~(/\ jobs[Master][id].status \in {"PENDING", "RETRYING"}
                       /\ jobs'[Master][id].status = "RUNNING")
                  /\ TakesResultOf(id) =>
                         /\ jobs'[Master][id].status \in {"COMPLETED", "RETRYING", "DEAD"}
                         /\ id \notin activeExecutions'
       /\ (~isPaused /\ isPaused') =>
              /\ ~schedulerTimer'
              /\ <<storeVars, activeExecutions, dispatching, poolVars>>' =
                     <<storeVars, activeExecutions, dispatching, poolVars>>
       /\ (isPaused /\ ~isPaused') => schedulerTimer' /\ isRunning']_vars

\* the scheduler is paused while a dispatch is in flight on a worker and
\* another job is PENDING
C24_Witness_PausedInFlight ==
    /\ isPaused
    /\ \E a, b \in Held(Master) :
           /\ jobs[Master][a].status = "PENDING"
           /\ jobs[Master][b].status = "RUNNING"
           /\ b \in activeExecutions
           /\ b \in jobCallbacks

Settled(k) == handlerStatus[k] \in {"resolved", "rejected"}

\* C25: shutdown is idempotent: a signal that arrives while shutdown is in
\* progress is dropped, so every registered handler is called at most once.
C25_HandlersRunAtMostOnce ==
    \A k \in Handlers : handlerRuns[k] <= 1

\* a second signal has arrived after the first handler was called
C25_Witness_SecondSignalDropped ==
    /\ signals = 2
    /\ gracefulIsShuttingDown
    /\ handlerRuns[1] = 1

\* C26: the handlers run one at a time in registration order, handler k + 1
\* is called only when handler k has settled, and a handler that rejects
\* does not keep the later handlers from being called.
C26_HandlersInOrder ==
    [][/\ \A k \in Handlers :
              handlerStatus'[k] # "registered" =>
                  \A j \in 1..(k - 1) : handlerStatus'[j] \in {"resolved", "rejected"}
       /\ \A k \in Handlers :
              (handlerStatus[k] = "running" /\ handlerStatus'[k] = "rejected") =>
                  IF k < NumHandlers THEN handlerStatus'[k + 1] = "running"
                                     ELSE exitCode' = 0]_vars

\* the first handler has rejected and the last one has been called and has resolved
C26_Witness_LaterHandlersRan ==
    /\ handlerStatus[1] = "rejected"
    /\ handlerStatus[NumHandlers] = "resolved"
    /\ \A k \in Handlers : handlerRuns[k] = 1

\* C27: the process exits with code 0 only when every handler has settled,
\* with code 1 only by the deadline while some handler has not; it exits
\* once; and every shutdown ends in an exit, also if a handler never settles.
C27_ExactlyOneExit ==
    /\ [](exitCode = 0 => \A k \in Handlers : Settled(k))
    /\ [][/\ (exitCode = Null /\ exitCode' = 1) =>
                 forceExitTimer /\ \E k \in Handlers : ~Settled(k)
          /\ exitCode # Null => exitCode' = exitCode]_vars
    /\ (gracefulIsShuttingDown ~> exitCode # Null)

\* the deadline has ended a shutdown in which a handler was still running
C27_Witness_ForcedExit ==
    /\ exitCode = 1
    /\ \E k \in Handlers : handlerStatus[k] = "running"

\* C22: once WorkerPool.shutdown() has begun, a new executeJob call is
\* rejected with the shutting-down error and gets neither a worker nor a
\* place in the waiting line; a worker released then is not made available
\* again; and no worker is terminated while it executes a job.
C22_ShutdownRejectsAndDrains ==
    [][/\ isShuttingDown =>
              /\ \A id \in Held(Master) :
                     FirstEmitted(id, "job:started") =>
                         /\ jobs'[Master][id].error = ShuttingDownMessage
                         /\ jobs'[Master][id].status \in {"RETRYING", "DEAD"}
                         /\ id \notin jobCallbacks'
                         /\ id \notin Range(waiting')
                         /\ currentJob' = currentJob
              /\ \A w \in WorkerIds :
                     (chan[w] # <<>> /\ chan'[w] = Tail(chan[w])) =>
                         /\ w \notin Range(availableWorkers')
                         /\ currentJob'[w] = 0
       /\ \A w \in WorkerIds :
              thread[w] = "executing" => thread'[w] # "terminated"]_vars

\* the pool has waited for a busy worker, has terminated it after its job
\* was done, and has turned down a dispatch meanwhile
C22_Witness_RejectedWhileDraining ==
    /\ poolShutdown = "terminating"
    /\ \E a, b \in Held(Master) :
           /\ jobs[Master][a].error = ShuttingDownMessage
           /\ jobs[Master][b].status = "COMPLETED"
           /\ jobs[Master][b].finishedAt >= jobs[Master][a].createdAt

\* the executeJob call made for job id has not settled
CallPending(id) == id \in Range(waiting) \/ id \in jobCallbacks

\* C30 (as the specification states it): every executeJob call on an
\* initialised pool settles in the end, also a call that is waiting for a
\* free worker when shutdown() begins.
C30_EveryCallSettles ==
    \A id \in JobIds : CallPending(id) ~> ~CallPending(id)

\* a job is started in this step
StartsJob(id) == FirstEmitted(id, "job:started")

\* C28: in the master's shutdown sequence WorkerPool.shutdown() starts only
\* when the scheduler's first handler has ended, with the scheduler stopped
\* and nothing in flight; the third handler (the API workers) starts only
\* when WorkerPool.shutdown() has returned; from the signal on the scheduler
\* starts no job, and no job ever fails with the shutting-down error.
C28_MasterShutdownOrder ==
    [][/\ (poolShutdown = "no" /\ poolShutdown' # "no") =>
              /\ handlerStatus'[1] = "resolved"
              /\ activeExecutions = {} /\ activeExecutions' = {}
              /\ ~isRunning' /\ ~schedulerTimer'
       /\ (handlerRuns[3] = 0 /\ handlerRuns'[3] = 1) =>
              /\ poolShutdown' = "done"
              /\ handlerStatus'[2] = "resolved"
       /\ gracefulIsShuttingDown => \A id \in Held(Master) : ~StartsJob(id)
       /\ \A id \in JobIds :
              jobs'[Master][id] # NoJob => jobs'[Master][id].error # ShuttingDownMessage]_vars

\* the sequence has run to its end: a job that was in flight at the signal
\* was waited for, a job that was not yet started stays untouched
C28_Witness_CleanExit ==
    /\ exitCode = 0
    /\ \E a, b \in Held(Master) :
           /\ jobs[Master][a].status = "COMPLETED"
           /\ jobs[Master][b].status = "PENDING"

\* C29: waitForActiveExecutions returns only when the in-flight set is
\* empty, and once the set is empty it returns (unless the deadline of the
\* shutdown ends the process first).
C29_WaitReturnsWhenDrained ==
    /\ [][(handlerStatus[1] # "resolved" /\ handlerStatus'[1] = "resolved") =>
               (activeExecutions = {} /\ activeExecutions' = {})]_vars
    /\ (handlerStatus[1] = "running" /\ activeExecutions = {})
           ~> (handlerStatus[1] = "resolved" \/ exitCode # Null)

\* the call found a dispatch in flight, has waited, and the set is empty now
C29_Witness_DrainedWhileWaiting ==
    /\ exitCode = Null
    /\ handlerStatus[1] = "running"
    /\ activeExecutions = {}
    /\ \E id \in Held(Master) : jobs[Master][id].status \in {"COMPLETED", "RETRYING", "DEAD"}

\* C31 (as the specification states it): a poll that is not skipped
\* starts every job that is ready and not in flight, whether or not a
\* worker is free: after the poll each of them is RUNNING and in the
\* in-flight set.
C31_PollStartsEveryReadyJob ==
    [][(Poll /\ ~pollSkips) =>
           \A id \in Range(ReadyNow) \ activeExecutions :
               /\ StartsJob(id)
               /\ jobs'[Master][id].status = "RUNNING"
               /\ id \in activeExecutions']_vars

\* the names of the events job id gets in this step
NewEvents(id) ==
    [i \in 1..(Len(events'[id]) - Len(events[id])) |-> events'[id][Len(events[id]) + i].name]

\* how often an event of that name is emitted for job id in this step
Emitted(id, name) == Cardinality({i \in DOMAIN NewEvents(id) : NewEvents(id)[i] = name})

\* a worker's message of that type for job id is handled in this step and
\* settles the pending executeJob call
TakesMessage(id, type) ==
    \E w \in WorkerIds :
        /\ chan[w] # <<>>
        /\ Head(chan[w]).type = type
        /\ Head(chan[w]).jobId = id
        /\ chan'[w] = Tail(chan[w])
        /\ id \in jobCallbacks

\* C32 (as the specification states it): a dispatch ends with exactly one of
\* completeJob and failJob for its job: a step calls at most one of them for
\* a job, it does so exactly when the job leaves the in-flight set, a pool
\* call that resolves leads to completeJob only, one that rejects leads to
\* one failJob with the error's message.
C32_OneOutcomePerDispatch ==
    [][\A id \in JobIds :
           LET c == Emitted(id, "job:completed")
               f == Emitted(id, "job:failed")
           IN  /\ c + f <= 1
               /\ (c + f = 1) => id \notin activeExecutions'
               /\ (id \in activeExecutions /\ id \notin activeExecutions') => c + f = 1
               /\ TakesMessage(id, "success") => (c = 1 /\ f = 0)
               /\ \A w \in WorkerIds :
                      (TakesMessage(id, "failure") /\ chan[w] # <<>> /\ chan'[w] = Tail(chan[w])) =>
                          (f = 1 /\ c = 0 /\ jobs'[Master][id].error = Head(chan[w]).error)]_vars

\* the jobs of the master's store whose status is RUNNING
RunningJobs == {id \in Held(Master) : jobs[Master][id].status = "RUNNING"}

\* C33: between the steps of the master's event loop the scheduler's
\* in-flight set is the set of the RUNNING jobs.
C33_InFlightIsRunning == activeExecutions = RunningJobs

\* a job is in flight for the second time while another job has ended
C33_Witness_InFlightAndEnded ==
    /\ \E id \in activeExecutions : jobs[Master][id].attempts = 2
    /\ \E id \in Held(Master) : jobs[Master][id].status \in {"COMPLETED", "RETRYING", "DEAD"}

\* C34: FAILED is a status a job has only inside failJob: between the steps
\* of a process no job of its store is FAILED and its FAILED set is empty.
C34_FailedIsTransient ==
    \A p \in Procs :
        /\ \A id \in Held(p) : jobs[p][id].status # "FAILED"
        /\ jobsByStatus[p]["FAILED"] = <<>>

\* failJob has taken a job through FAILED to RETRYING and another one to DEAD
C34_Witness_FailedTwice ==
    \E a, b \in Held(Master) :
        /\ jobs[Master][a].status = "RETRYING"
        /\ jobs[Master][a].error # NoError
        /\ Named(events[a], "job:failed") # {}
        /\ jobs[Master][b].status = "DEAD"

\* worker w is handed a job in this step
HandedJob(w) == busyWorkers'[w] # 0 /\ busyWorkers'[w] # busyWorkers[w]

\* C35: no worker is at once available and busy, no worker is twice in
\* availableWorkers, and a worker is handed a job only when it is not
\* busy, executes nothing and has no outcome on its way to the pool.
C35_WorkerHoldsOneJob ==
    /\ [](\A w \in WorkerIds : ~(w \in Range(availableWorkers) /\ busyWorkers[w] # 0))
    /\ [](Cardinality(Range(availableWorkers)) = Len(availableWorkers))
    /\ [][\A w \in WorkerIds :
               HandedJob(w) =>
                   /\ busyWorkers[w] = 0
                   /\ thread[w] # "executing"
                   /\ chan[w] = <<>>]_vars

\* a worker that has given back the outcome of one job executes the next
C35_Witness_SecondJobOnWorker ==
    \E w \in WorkerIds, a, b \in Held(Master) :
        /\ a # b
        /\ jobs[Master][a].status \in {"COMPLETED", "RETRYING"}
        /\ jobs[Master][a].startedAt # Null
        /\ busyWorkers[w] = b
        /\ thread[w] = "executing"
        /\ availableWorkers = <<>>

\* C36: the pool never counts more than WORKER_POOL_SIZE workers, and every
\* worker it counts, offers or uses has signalled 'ready'.
C36_PoolSizeBounded ==
    /\ Len(workers) <= poolSize
    /\ \A w \in WorkerIds :
           (w \in Range(workers) \/ w \in Range(availableWorkers) \/ busyWorkers[w] # 0) =>
               thread[w] \notin {"unborn", "starting", "uncounted"}

\* the first worker has crashed, its replacement is counted in its place
C36_Witness_ReplacementCounted ==
    /\ thread[1] \in {"errored", "exited"}
    /\ workers = <<2>>
    /\ busyWorkers[2] # 0

====
